---------------------------- MODULE Spec2Model ----------------------------
(***************************************************************************)
(* A model of app.py, the resume builder: the bold-marker parsers          *)
(* (parse_and_format_bullet, parse_and_format_skill), the section locator  *)
(* (find_section), the two section inserters (add_content_to_section,      *)
(* add_skills_to_section) and the build sequence of main.                  *)
(*                                                                         *)
(* A Python str is a sequence of one-character strings.  A document is the *)
(* sequence doc.paragraphs; a paragraph is a record of its identity, its   *)
(* runs and its space_after setting.  Python indices are kept 0-based in   *)
(* the variables (section_idx, current_idx) and shifted at each access.    *)
(***************************************************************************)
EXTENDS Integers, Sequences, FiniteSets, TLC

VARIABLES
    text,            \* argument of the parser call (bullet_text / skill_text)
    segments,        \* value returned by the parser call
    ppc,             \* parser call position: "input", "bullet", "skill", "reparsed"
    reparsed,        \* the rendering of segments and its own parse
    doc,             \* doc.paragraphs
    pc,              \* position inside the inserter call ("idle": no call)
    fn,              \* inserter being run: "content", "skills", "none"
    section_title,   \* argument section_title
    content,         \* argument content_json / skills_list
    section_idx,     \* local section_idx
    current_idx,     \* local current_idx
    item_i,          \* position of the for-loop over content_json / skills_list
    bullet_j,        \* position of the for-loop over bullets
    result,          \* value returned by the inserter call: "none", "True", "False"
    doc0,            \* history: doc.paragraphs at the entry of the running call
    step0,           \* history: doc.paragraphs and current_idx before the last
                     \* add_paragraph/addprevious step of the running call
    template,        \* history: doc.paragraphs as loaded from the template
    stage,           \* main: the statement reached
    job_description, \* main: the text area's value
    resume_data,     \* main: resume_data
    response,        \* history: what the enhancement call produced
    messages,        \* st.success / st.error outputs, in order
    calls            \* history: the inserter calls made by main, in order

vars == <<text, segments, ppc, reparsed, doc, pc, fn, section_title, content,
          section_idx, current_idx, item_i, bullet_j, result, doc0, step0,
          template, stage, job_description, resume_data, response, messages,
          calls>>

parseVars == <<text, segments, ppc, reparsed>>
callVars  == <<doc, pc, fn, section_title, content, section_idx, current_idx,
               item_i, bullet_j, result, doc0, step0>>
mainVars  == <<template, stage, job_description, resume_data, response, messages,
               calls>>

-----------------------------------------------------------------------------
(* Bounds of the model.                                                     *)

\* longest string handed to the parsers
MaxLen == 7
\* most groups in a content_json list
MaxGroups == 2
\* most bullets in a group
MaxBullets == 2
\* most lines in a skills_list
MaxSkills == 2

-----------------------------------------------------------------------------
(* Python str operations used by app.py.                                    *)

Lowercase == <<"a","b","c","d","e","f","g","h","i","j","k","l","m",
               "n","o","p","q","r","s","t","u","v","w","x","y","z">>
Uppercase == <<"A","B","C","D","E","F","G","H","I","J","K","L","M",
               "N","O","P","Q","R","S","T","U","V","W","X","Y","Z">>
Whitespace == {" ", "\t", "\n"}

LowercaseSet == {Lowercase[k] : k \in 1..Len(Lowercase)}
UpperOf ==
    [c \in LowercaseSet |->
        Uppercase[CHOOSE k \in 1..Len(Lowercase) : Lowercase[k] = c]]

\* str.upper() on one character
UpperChar(c) == IF c \in LowercaseSet THEN UpperOf[c] ELSE c

\* str.upper()
Upper(s) == [k \in 1..Len(s) |-> UpperChar(s[k])]

\* str.strip()
Strip(s) ==
    LET keep == {k \in 1..Len(s) : s[k] \notin Whitespace}
    IN  IF keep = {} THEN <<>>
        ELSE LET lo == CHOOSE k \in keep : \A m \in keep : k <= m
                 hi == CHOOSE k \in keep : \A m \in keep : m <= k
             IN  SubSeq(s, lo, hi)

\* sub occurs in s at (1-based) position k
MatchAt(s, sub, k) ==
    /\ k + Len(sub) - 1 <= Len(s)
    /\ \A m \in 1..Len(sub) : s[k + m - 1] = sub[m]

\* the operator `sub in s`
Contains(s, sub) == \E k \in 1..(Len(s) + 1) : MatchAt(s, sub, k)

RECURSIVE SplitFrom(_, _, _, _, _)
\* str.split(sep, maxsplit) scanning from position k with the part `cur` open;
\* left counts the splits still allowed (-1: no limit)
SplitFrom(s, sep, left, k, cur) ==
    IF k > Len(s) THEN <<cur>>
    ELSE IF left # 0 /\ MatchAt(s, sep, k)
         THEN <<cur>> \o SplitFrom(s, sep, IF left > 0 THEN left - 1 ELSE left,
                                   k + Len(sep), <<>>)
         ELSE SplitFrom(s, sep, left, k + 1, Append(cur, s[k]))

\* s.split(sep)
Split(s, sep) == SplitFrom(s, sep, -1, 1, <<>>)
\* s.split(sep, maxsplit)
SplitMax(s, sep, maxsplit) == SplitFrom(s, sep, maxsplit, 1, <<>>)

BoldMarker == <<"*", "*">>
Colon == <<":">>

-----------------------------------------------------------------------------
(* The parsers.  A segment is the tuple (text, is_bold) as a record.        *)

Seg(t, b) == [text |-> t, bold |-> b]

RECURSIVE SegmentsOfParts(_, _)
\* the loop of parse_and_format_bullet over enumerate(parts), from index i
SegmentsOfParts(parts, i) ==
    IF i >= Len(parts) THEN <<>>
    ELSE (IF parts[i + 1] # <<>>
          THEN <<Seg(parts[i + 1], i % 2 = 1)>>
          ELSE <<>>) \o SegmentsOfParts(parts, i + 1)

RECURSIVE FlippedSegmentsOfParts(_, _)
\* a slip in the parity test: even-indexed parts come out bold
FlippedSegmentsOfParts(parts, i) ==
    IF i >= Len(parts) THEN <<>>
    ELSE (IF parts[i + 1] # <<>>
          THEN <<Seg(parts[i + 1], i % 2 = 0)>>
          ELSE <<>>) \o FlippedSegmentsOfParts(parts, i + 1)

\* a slip in the malformed-input test: odd part counts are taken as malformed
parse_and_format_bullet_oddcheck(bullet_text) ==
    LET parts == Split(bullet_text, BoldMarker)
    IN  IF Len(parts) % 2 = 1 THEN <<Seg(bullet_text, FALSE)>>
        ELSE SegmentsOfParts(parts, 0)

\* a slip in the loop: the parity of the index is read the wrong way round
parse_and_format_bullet_flipped(bullet_text) ==
    LET parts == Split(bullet_text, BoldMarker)
    IN  IF Len(parts) % 2 = 0 THEN <<Seg(bullet_text, FALSE)>>
        ELSE FlippedSegmentsOfParts(parts, 0)

\* a slip in the split: the text is cut at single asterisks
parse_and_format_bullet_single(bullet_text) ==
    LET parts == Split(bullet_text, <<"*">>)
    IN  IF Len(parts) % 2 = 0 THEN <<Seg(bullet_text, FALSE)>>
        ELSE SegmentsOfParts(parts, 0)

parse_and_format_bullet(bullet_text) ==
    LET parts == Split(bullet_text, BoldMarker)
    IN  IF Len(parts) % 2 = 0 THEN <<Seg(bullet_text, FALSE)>>
        ELSE SegmentsOfParts(parts, 0)

\* a slip in the colon branch: the colon is left out of the bold prefix
parse_and_format_skill_nocolon(skill_text) ==
    IF Contains(skill_text, BoldMarker)
    THEN parse_and_format_bullet(skill_text)
    ELSE IF Contains(skill_text, Colon)
    THEN LET parts == SplitMax(skill_text, Colon, 1)
         IN  IF Len(parts) = 2
             THEN <<Seg(parts[1], TRUE), Seg(parts[2], FALSE)>>
             ELSE <<Seg(skill_text, FALSE)>>
    ELSE <<Seg(skill_text, FALSE)>>

parse_and_format_skill(skill_text) ==
    IF Contains(skill_text, BoldMarker)
    THEN parse_and_format_bullet(skill_text)
    ELSE IF Contains(skill_text, Colon)
    THEN LET parts == SplitMax(skill_text, Colon, 1)
         IN  IF Len(parts) = 2
             THEN <<Seg(parts[1] \o Colon, TRUE), Seg(parts[2], FALSE)>>
             ELSE <<Seg(skill_text, FALSE)>>
    ELSE <<Seg(skill_text, FALSE)>>

-----------------------------------------------------------------------------
(* Texts.                                                                   *)

EXPERIENCE == <<"E","X","P","E","R","I","E","N","C","E">>
PROJECTS == <<"P","R","O","J","E","C","T","S">>
TECHNICAL_SKILLS == <<"T","E","C","H","N","I","C","A","L"," ","S","K","I","L","L","S">>

\* the literal passed to add_run for a bullet: the three characters the
\* source file holds for the glyph, and a space
BulletPrefix == <<"U+201A", "U+00C4", "U+00A2", " ">>

T_name == <<"J","a","n","e"," ","D","o","e">>
T_exp_padded == <<" "," ","E","x","p","e","r","i","e","n","c","e"," "," ">>
T_acme == <<"A","c","m","e">>
T_refs == <<"R","e","f","e","r","e","n","c","e","s">>

Title_dev == <<"D","e","v"," ","|"," ","U","F">>
Title_qa == <<"Q","A"," ","I","n","t","e","r","n">>
Title_plat == <<"G","-","C","o","m","m","u","n","i","t","y">>
Title_lead == <<"P","r","o","j","e","c","t","s"," ","L","e","a","d">>

B_etl == <<"B","u","i","l","t"," ","*","*","E","T","L","*","*"," ","p","i","p","e","l","i","n","e","s">>
B_mal == <<"C","u","t"," ","c","o","s","t"," ","b","y"," ","*","*","3","5","%">>
B_plain == <<"W","r","o","t","e"," ","t","e","s","t","s">>
B_led == <<"L","e","d"," ","p","r","o","j","e","c","t","s">>
B_fast == <<"*","*","F","a","s","t","*","*"," ","A","P","I">>

S_lang == <<"*","*","L","a","n","g","u","a","g","e","s",":","*","*"," ","J","a","v","a",","," ","R">>
S_tools == <<"T","o","o","l","s",":"," ","G","i","t">>
S_misc == <<"M","i","s","c">>
S_tech == <<"T","e","c","h","n","i","c","a","l"," ","s","k","i","l","l","s",":"," ","G","o">>

-----------------------------------------------------------------------------
(* Documents.                                                               *)

\* a run: its text and the font attributes app.py sets ("None": left unset)
Run(t, bold, italic, size) ==
    [text |-> t, bold |-> bold, italic |-> italic, size |-> size]

PyBool(b) == IF b THEN "True" ELSE "False"

\* a paragraph: id stands for the identity of its XML element
Para(id, runs, space_before, space_after, line_spacing) ==
    [id |-> id, runs |-> runs, space_before |-> space_before,
     space_after |-> space_after, line_spacing |-> line_spacing]

RECURSIVE ConcatRuns(_)
ConcatRuns(runs) ==
    IF runs = <<>> THEN <<>> ELSE Head(runs).text \o ConcatRuns(Tail(runs))

\* Paragraph.text
ParaText(p) == ConcatRuns(p.runs)

\* a paragraph of the template file
TemplatePara(id, t) ==
    Para(id, <<Run(t, "None", "None", "None")>>, "None", "None", "None")

\* the document loaded from a template whose paragraphs have these texts
load_docx(texts) == [k \in 1..Len(texts) |-> TemplatePara(k, texts[k])]

\* find_section(doc, section_title): the 0-based index of the first paragraph
\* whose stripped, upper-cased text contains the upper-cased title, or -1
find_section(paragraphs, title) ==
    LET hits == {i \in 0..(Len(paragraphs) - 1) :
                    Contains(Upper(Strip(ParaText(paragraphs[i + 1]))),
                             Upper(title))}
    IN  IF hits = {} THEN -1
        ELSE CHOOSE i \in hits : \A m \in hits : i <= m

\* doc.add_paragraph(): the new paragraph is appended to the body
add_paragraph(paragraphs, p) == Append(paragraphs, p)

\* a slip in the move: the new paragraph lands after the cursor's paragraph
addprevious_after(paragraphs, target, source) ==
    IF target = source THEN paragraphs
    ELSE LET p == paragraphs[source + 1]
             rest == [k \in 1..(Len(paragraphs) - 1) |->
                        IF k < source + 1 THEN paragraphs[k]
                        ELSE paragraphs[k + 1]]
             t == IF target < source THEN target + 1 ELSE target
         IN  SubSeq(rest, 1, t) \o <<p>> \o SubSeq(rest, t + 1, Len(rest))

\* doc.paragraphs[target]._p.addprevious(doc.paragraphs[source]._p), 0-based:
\* the source element is taken out of its place and put right before the
\* target element; adding an element before itself changes nothing
addprevious(paragraphs, target, source) ==
    IF target = source THEN paragraphs
    ELSE LET p == paragraphs[source + 1]
             rest == [k \in 1..(Len(paragraphs) - 1) |->
                        IF k < source + 1 THEN paragraphs[k]
                        ELSE paragraphs[k + 1]]
             t == IF target < source THEN target + 1 ELSE target
         IN  SubSeq(rest, 1, t - 1) \o <<p>> \o SubSeq(rest, t, Len(rest))

\* the idiom "p = para._element; doc.paragraphs[idx]._p.addprevious(p)" on a
\* paragraph just made by doc.add_paragraph()
InsertAtCursor(paragraphs, idx, p) ==
    LET appended == add_paragraph(paragraphs, p)
    IN  addprevious(appended, idx, Len(appended) - 1)

\* the runs made from parser segments (font Times New Roman, 11pt)
SegmentRuns(segs) ==
    [k \in 1..Len(segs) |-> Run(segs[k].text, PyBool(segs[k].bold), "None", "Pt(11)")]

\* the title paragraph of add_content_to_section
TitlePara(id, title) ==
    Para(id, <<Run(title, "True", "True", "Pt(12)")>>, "None", "Pt(0)", "None")

\* a slip in the bullet paragraph: the raw text is written as one run
BulletPara_raw(id, bullet) ==
    Para(id, <<Run(BulletPrefix, "None", "None", "Pt(11)"),
               Run(bullet, "False", "None", "Pt(11)")>>,
         "None", "Pt(0)", "1.0")

\* the bullet paragraph of add_content_to_section
BulletPara(id, bullet) ==
    Para(id, <<Run(BulletPrefix, "None", "None", "Pt(11)")>>
             \o SegmentRuns(parse_and_format_bullet(bullet)),
         "None", "Pt(0)", "1.0")

\* the spacer paragraph of add_content_to_section
SpacerPara(id) == Para(id, <<>>, "None", "Pt(0.5)", "None")

\* the paragraph of add_skills_to_section
SkillPara(id, skill) ==
    Para(id, SegmentRuns(parse_and_format_skill(skill)), "Pt(0)", "Pt(0)", "1.0")

\* an item of content_json: a single-key mapping {title: bullets}; mapping is
\* FALSE for a list element that is no mapping (it has no .items())
Group(title, bullets) == [mapping |-> TRUE, title |-> title, bullets |-> bullets]
NotAMapping == [mapping |-> FALSE, title |-> <<>>, bullets |-> <<>>]

-----------------------------------------------------------------------------
(* Inputs.                                                                  *)

\* all sequences over S of length at most n
SeqsUpTo(S, n) == UNION {[1..k -> S] : k \in 0..n}

\* strings handed to the parsers
Alphabet == {"a", "*", ":"}
ParserInputs == SeqsUpTo(Alphabet, MaxLen)

\* documents handed to a single inserter call: the runs of consecutive
\* paragraphs of this one
BaseTexts == <<T_name, T_exp_padded, PROJECTS, EXPERIENCE, T_refs>>
InsertDocs ==
    {load_docx(SubSeq(BaseTexts, a, b)) :
        a \in 1..Len(BaseTexts), b \in 0..Len(BaseTexts)}
InsertHeadings == {EXPERIENCE, PROJECTS}

\* content_json lists handed to a single add_content_to_section call
BulletPool == <<B_etl, B_mal, B_fast, B_plain, B_led>>
InsertTitles == {Title_dev, Title_qa}
InsertGroups ==
    {Group(t, SubSeq(BulletPool, 1, n)) : t \in InsertTitles, n \in 0..MaxBullets}
InsertContents == SeqsUpTo(InsertGroups, MaxGroups)

\* skills_list lists handed to a single add_skills_to_section call
SkillPool == {S_lang, S_tools, S_misc}
InsertSkills == SeqsUpTo(SkillPool, MaxSkills)

-----------------------------------------------------------------------------
(* One inserter call, statement by statement.                               *)

Message(kind, t) == [kind |-> kind, text |-> t]

NoStep == [doc |-> <<>>, idx |-> 0, taken |-> FALSE]

\* the state at the entry of add_content_to_section / add_skills_to_section
BeginCall(f, title, c) ==
    /\ pc' = "find"
    /\ fn' = f
    /\ section_title' = title
    /\ content' = c
    /\ section_idx' = -1
    /\ current_idx' = 0
    /\ item_i' = 0
    /\ bullet_j' = 0
    /\ result' = "none"
    /\ doc0' = doc
    /\ step0' = NoStep
    /\ doc' = doc

\* a slip in the sentinel test: index 0 is taken for "not found"
NotFound_zero(idx) == idx = 0

\* the test `section_idx == -1`
NotFound(idx) == idx = -1

\* section_idx = find_section(...); the early return on -1; current_idx
FindSection ==
    /\ pc = "find"
    /\ LET idx == find_section(doc, section_title)
       IN  /\ section_idx' = idx
           /\ IF NotFound(idx)
              THEN /\ messages' = Append(messages,
                          Message("error", <<"Could not find section", section_title>>))
                   /\ result' = "False"
                   /\ pc' = "return"
                   /\ current_idx' = current_idx
              ELSE /\ messages' = messages
                   /\ result' = result
                   /\ pc' = IF fn = "content" THEN "item" ELSE "skill"
                   /\ current_idx' = idx + 1
    /\ UNCHANGED <<doc, fn, section_title, content, item_i, bullet_j, doc0, step0>>
    /\ UNCHANGED <<template, stage, job_description, resume_data, response, calls>>
    /\ UNCHANGED parseVars

\* one insertion at the cursor, then current_idx += 1
InsertStep(p) ==
    /\ step0' = [doc |-> doc, idx |-> current_idx, taken |-> TRUE]
    /\ doc' = InsertAtCursor(doc, current_idx, p)
    /\ current_idx' = current_idx + 1

\* the head of `for item in content_json` with a mapping: the title paragraph
AddTitle ==
    /\ pc = "item"
    /\ item_i < Len(content)
    /\ content[item_i + 1].mapping
    /\ InsertStep(TitlePara(Len(doc) + 1, content[item_i + 1].title))
    /\ bullet_j' = 0
    /\ pc' = "bullet"
    /\ UNCHANGED <<fn, section_title, content, section_idx, item_i, result, doc0>>
    /\ UNCHANGED mainVars
    /\ UNCHANGED parseVars

\* one pass of `for bullet in bullets`
AddBullet ==
    /\ pc = "bullet"
    /\ bullet_j < Len(content[item_i + 1].bullets)
    /\ InsertStep(BulletPara(Len(doc) + 1,
                             content[item_i + 1].bullets[bullet_j + 1]))
    /\ bullet_j' = bullet_j + 1
    /\ UNCHANGED <<pc, fn, section_title, content, section_idx, item_i, result, doc0>>
    /\ UNCHANGED mainVars
    /\ UNCHANGED parseVars

\* a slip in the spacer test: the position, not the value, is compared
NeedsSpacer_byindex(c, i) == i + 1 # Len(c)

\* the test `item != content_json[-1]` for the item at 0-based index i
NeedsSpacer(c, i) == c[i + 1] # c[Len(c)]

\* after the last bullet of an item: the spacer paragraph when the item
\* differs from the last one, then the next item
EndGroup ==
    /\ pc = "bullet"
    /\ bullet_j >= Len(content[item_i + 1].bullets)
    /\ IF NeedsSpacer(content, item_i)
       THEN InsertStep(SpacerPara(Len(doc) + 1))
       ELSE UNCHANGED <<doc, current_idx, step0>>
    /\ item_i' = item_i + 1
    /\ pc' = "item"
    /\ UNCHANGED <<fn, section_title, content, section_idx, bullet_j, result, doc0>>
    /\ UNCHANGED mainVars
    /\ UNCHANGED parseVars

\* one pass of `for skill_category in skills_list`
AddSkill ==
    /\ pc = "skill"
    /\ item_i < Len(content)
    /\ InsertStep(SkillPara(Len(doc) + 1, content[item_i + 1]))
    /\ item_i' = item_i + 1
    /\ UNCHANGED <<pc, fn, section_title, content, section_idx, bullet_j, result, doc0>>
    /\ UNCHANGED mainVars
    /\ UNCHANGED parseVars

\* the loop is over: return True
ReturnTrue ==
    /\ pc \in {"item", "skill"}
    /\ item_i >= Len(content)
    /\ result' = "True"
    /\ pc' = "return"
    /\ UNCHANGED <<doc, fn, section_title, content, section_idx, current_idx,
                   item_i, bullet_j, doc0, step0>>
    /\ UNCHANGED mainVars
    /\ UNCHANGED parseVars

NoReparse == [text |-> <<>>, segments |-> <<>>]

IdleParser ==
    /\ text = <<>>
    /\ segments = <<>>
    /\ ppc = "idle"
    /\ reparsed = NoReparse

EmptyPayload == [keys |-> {}, experience |-> <<>>, projects |-> <<>>, skills |-> <<>>]
NoResponse == [kind |-> "no_call", value |-> EmptyPayload]

IdleMain ==
    /\ template = <<>>
    /\ stage = "harness"
    /\ job_description = <<>>
    /\ resume_data = EmptyPayload
    /\ response = NoResponse
    /\ messages = <<>>
    /\ calls = <<>>

\* a single call of one inserter on a document
InitInsert ==
    /\ IdleParser
    /\ stage = "harness"
    /\ job_description = <<>>
    /\ resume_data = EmptyPayload
    /\ response = NoResponse
    /\ messages = <<>>
    /\ calls = <<>>
    /\ doc \in InsertDocs
    /\ template = doc
    /\ doc0 = doc
    /\ pc = "find"
    /\ section_title \in InsertHeadings
    /\ \/ fn = "content" /\ content \in InsertContents
       \/ fn = "skills" /\ content \in InsertSkills
    /\ section_idx = -1
    /\ current_idx = 0
    /\ item_i = 0
    /\ bullet_j = 0
    /\ result = "none"
    /\ step0 = NoStep

NextInsert ==
    \/ FindSection
    \/ AddTitle
    \/ AddBullet
    \/ EndGroup
    \/ AddSkill
    \/ ReturnTrue

SpecInsert == InitInsert /\ [][NextInsert]_vars

-----------------------------------------------------------------------------
(* main: one press of "Build Resume".                                       *)

\* a payload: the keys of the mapping and the values of the three keys the
\* build reads (an absent key has the value <<>> here and is not in keys)
Payload(keys, e, p, s) == [keys |-> keys, experience |-> e, projects |-> p, skills |-> s]

\* software_dev_resume, abridged: the same shape with fewer and shorter
\* entries; as in the source, no text holds the name of a section
software_dev_resume ==
    Payload({"experience", "projects", "skills"},
            <<Group(Title_dev, <<B_plain>>), Group(Title_qa, <<B_plain>>)>>,
            <<Group(Title_plat, <<B_plain>>)>>,
            <<S_lang>>)

\* the template files of the model
Templates ==
    { <<T_name, EXPERIENCE, T_acme, PROJECTS, TECHNICAL_SKILLS>>,
      <<T_name, EXPERIENCE, PROJECTS, TECHNICAL_SKILLS, T_refs>>,
      <<PROJECTS, T_acme, EXPERIENCE, TECHNICAL_SKILLS>>,
      <<T_name, EXPERIENCE, TECHNICAL_SKILLS>> }

JobDescriptions == {<<>>, <<"j", "d">>}

B_taught == <<"T","a","u","g","h","t"," ","t","e","c","h","n","i","c","a","l"," ","s","k","i","l","l","s">>

\* payloads of the expected schema that the enhancement call may return
EnhancedPayloads ==
    {Payload(ks, IF "experience" \in ks THEN e ELSE <<>>,
                 IF "projects" \in ks THEN p ELSE <<>>,
                 IF "skills" \in ks THEN s ELSE <<>>) :
        ks \in {{"experience", "projects", "skills"}, {"experience", "skills"}},
        e \in {<<Group(Title_dev, <<B_etl, B_mal>>)>>,
               <<Group(Title_dev, <<B_led>>), Group(Title_qa, <<>>)>>,
               <<Group(Title_lead, <<B_plain>>)>>},
        p \in {<<Group(Title_plat, <<B_fast>>)>>,
               <<Group(Title_plat, <<B_taught>>)>>},
        s \in {<<S_lang, S_tools>>}}

\* JSON objects that are no payload of the schema: {"summary": ...} and
\* {"experience": [...]} whose list elements are no mappings
SummaryOnly == Payload({"summary"}, <<>>, <<>>, <<>>)
ItemsNotMappings == Payload({"experience"}, <<NotAMapping>>, <<>>, <<>>)

\* what the chat completion call may produce: an exception, a message
\* content that is no JSON, or a message content that decodes to an object
Responses ==
    {[kind |-> "api_error", value |-> EmptyPayload],
     [kind |-> "not_json", value |-> EmptyPayload]}
    \cup {[kind |-> "json", value |-> v] :
            v \in EnhancedPayloads \cup {EmptyPayload, SummaryOnly, ItemsNotMappings}}

\* process_job_description: the decoded object, or None after any exception
process_job_description(r) ==
    IF r.kind = "json" THEN [none |-> FALSE, value |-> r.value]
    ELSE [none |-> TRUE, value |-> EmptyPayload]

\* the truth value of enhanced_data: None and the empty mapping are false
Truthy(e) == ~e.none /\ e.value.keys # {}

\* the three section blocks of main, in order
SectionKey(st) ==
    CASE st = "experience" -> "experience"
      [] st = "projects" -> "projects"
      [] st = "skills" -> "skills"
SectionTitle(st) ==
    CASE st = "experience" -> EXPERIENCE
      [] st = "projects" -> PROJECTS
      [] st = "skills" -> TECHNICAL_SKILLS
SectionFn(st) == IF st = "skills" THEN "skills" ELSE "content"
SectionValue(st) ==
    CASE st = "experience" -> resume_data.experience
      [] st = "projects" -> resume_data.projects
      [] st = "skills" -> resume_data.skills
NextStage(st) ==
    CASE st = "experience" -> "projects"
      [] st = "projects" -> "skills"
      [] st = "skills" -> "save"
SectionStages == {"experience", "projects", "skills"}

\* the state after doc = load_docx(uploaded_file)
InitBuild ==
    /\ IdleParser
    /\ \E t \in Templates : doc = load_docx(t)
    /\ template = doc
    /\ doc0 = doc
    /\ pc = "idle"
    /\ fn = "none"
    /\ section_title = <<>>
    /\ content = <<>>
    /\ section_idx = -1
    /\ current_idx = 0
    /\ item_i = 0
    /\ bullet_j = 0
    /\ result = "none"
    /\ step0 = NoStep
    /\ stage = "enhance"
    /\ job_description \in JobDescriptions
    /\ resume_data = software_dev_resume
    /\ response = NoResponse
    /\ messages = <<>>
    /\ calls = <<>>

\* `if job_description:` with an empty text area
SkipEnhancement ==
    /\ stage = "enhance"
    /\ job_description = <<>>
    /\ stage' = "experience"
    /\ UNCHANGED <<template, job_description, resume_data, response, messages, calls>>
    /\ UNCHANGED callVars
    /\ UNCHANGED parseVars

\* enhanced_data = process_job_description(...); if enhanced_data: ...
Enhance ==
    /\ stage = "enhance"
    /\ job_description # <<>>
    /\ \E r \in Responses :
          LET enhanced_data == process_job_description(r)
          IN  /\ response' = r
              /\ IF Truthy(enhanced_data)
                 THEN /\ resume_data' = enhanced_data.value
                      /\ messages' = Append(messages,
                             Message("success", <<"Resume content optimized">>))
                 ELSE /\ resume_data' = resume_data
                      /\ messages' =
                             IF enhanced_data.none
                             THEN Append(messages,
                                      Message("error", <<"Error calling OpenAI API">>))
                             ELSE messages
    /\ stage' = "experience"
    /\ UNCHANGED <<template, job_description, calls>>
    /\ UNCHANGED callVars
    /\ UNCHANGED parseVars

\* the test `"key" in resume_data and resume_data["key"]`
SectionPresent(st) == SectionKey(st) \in resume_data.keys /\ SectionValue(st) # <<>>

\* a section block whose test holds: the inserter is called
CallSection ==
    /\ stage \in SectionStages
    /\ pc = "idle"
    /\ SectionPresent(stage)
    /\ BeginCall(SectionFn(stage), SectionTitle(stage), SectionValue(stage))
    /\ UNCHANGED mainVars
    /\ UNCHANGED parseVars

\* a section block whose test fails
SkipSection ==
    /\ stage \in SectionStages
    /\ pc = "idle"
    /\ ~SectionPresent(stage)
    /\ stage' = NextStage(stage)
    /\ UNCHANGED <<template, job_description, resume_data, response, messages, calls>>
    /\ UNCHANGED callVars
    /\ UNCHANGED parseVars

\* the inserter has returned: success is reported one way or the other
ReturnSection ==
    /\ stage \in SectionStages
    /\ pc = "return"
    /\ messages' = Append(messages,
           IF result = "True"
           THEN Message("success", <<"Added section", SectionKey(stage)>>)
           ELSE Message("error", <<"Failed to add section", SectionKey(stage)>>))
    /\ calls' = Append(calls, [title |-> section_title, content |-> content,
                               fn |-> fn, result |-> result,
                               before |-> doc0, after |-> doc])
    /\ pc' = "idle"
    /\ stage' = NextStage(stage)
    /\ UNCHANGED <<doc, fn, section_title, content, section_idx, current_idx,
                   item_i, bullet_j, result, doc0, step0>>
    /\ UNCHANGED <<template, job_description, resume_data, response>>
    /\ UNCHANGED parseVars

\* item.items() on a list element that is no mapping: AttributeError, which
\* main's `except json.JSONDecodeError` does not catch
Crash ==
    /\ pc = "item"
    /\ item_i < Len(content)
    /\ ~content[item_i + 1].mapping
    /\ pc' = "crash"
    /\ stage' = "crashed"
    /\ UNCHANGED <<doc, fn, section_title, content, section_idx, current_idx,
                   item_i, bullet_j, result, doc0, step0>>
    /\ UNCHANGED <<template, job_description, resume_data, response, messages, calls>>
    /\ UNCHANGED parseVars

\* output_docx = save_docx(doc) and the download button
Save ==
    /\ stage = "save"
    /\ stage' = "done"
    /\ UNCHANGED <<template, job_description, resume_data, response, messages, calls>>
    /\ UNCHANGED callVars
    /\ UNCHANGED parseVars

NextBuild ==
    \/ SkipEnhancement
    \/ Enhance
    \/ CallSection
    \/ SkipSection
    \/ ReturnSection
    \/ FindSection
    \/ AddTitle
    \/ AddBullet
    \/ EndGroup
    \/ AddSkill
    \/ ReturnTrue
    \/ Crash
    \/ Save

SpecBuild == InitBuild /\ [][NextBuild]_vars

-----------------------------------------------------------------------------
(* The parsers called on their own.                                         *)

IdleCall ==
    /\ doc = <<>>
    /\ doc0 = <<>>
    /\ pc = "idle"
    /\ fn = "none"
    /\ section_title = <<>>
    /\ content = <<>>
    /\ section_idx = -1
    /\ current_idx = 0
    /\ item_i = 0
    /\ bullet_j = 0
    /\ result = "none"
    /\ step0 = NoStep

InitParse ==
    /\ text \in ParserInputs
    /\ segments = <<>>
    /\ ppc = "input"
    /\ reparsed = NoReparse
    /\ IdleCall
    /\ IdleMain

\* segments = parse_and_format_bullet(text)
ParseBullet ==
    /\ ppc = "input"
    /\ segments' = parse_and_format_bullet(text)
    /\ ppc' = "bullet"
    /\ UNCHANGED <<text, reparsed>>
    /\ UNCHANGED callVars
    /\ UNCHANGED mainVars

\* segments = parse_and_format_skill(text)
ParseSkill ==
    /\ ppc = "input"
    /\ segments' = parse_and_format_skill(text)
    /\ ppc' = "skill"
    /\ UNCHANGED <<text, reparsed>>
    /\ UNCHANGED callVars
    /\ UNCHANGED mainVars

RECURSIVE Render(_)
\* the segments written back as one string, "**" around each bold segment
Render(segs) ==
    IF segs = <<>> THEN <<>>
    ELSE (IF Head(segs).bold
          THEN BoldMarker \o Head(segs).text \o BoldMarker
          ELSE Head(segs).text) \o Render(Tail(segs))

\* the round trip: the segments are rendered and the rendering parsed again
ReparseRendered ==
    /\ ppc = "bullet"
    /\ reparsed' = [text |-> Render(segments),
                    segments |-> parse_and_format_bullet(Render(segments))]
    /\ ppc' = "reparsed"
    /\ UNCHANGED <<text, segments>>
    /\ UNCHANGED callVars
    /\ UNCHANGED mainVars

NextParse ==
    \/ ParseBullet
    \/ ParseSkill
    \/ ReparseRendered

SpecParse == InitParse /\ [][NextParse]_vars

-----------------------------------------------------------------------------
(* What the claims speak of, stated apart from the code's own helpers.      *)

RECURSIVE RemoveMarkers(_)
\* s with every "**" token (read left to right) removed
RemoveMarkers(s) ==
    IF Len(s) < 2 THEN s
    ELSE IF s[1] = "*" /\ s[2] = "*" THEN RemoveMarkers(SubSeq(s, 3, Len(s)))
    ELSE <<s[1]>> \o RemoveMarkers(Tail(s))

RECURSIVE CountMarkers(_)
\* the number of "**" tokens of s (read left to right)
CountMarkers(s) ==
    IF Len(s) < 2 THEN 0
    ELSE IF s[1] = "*" /\ s[2] = "*" THEN 1 + CountMarkers(SubSeq(s, 3, Len(s)))
    ELSE CountMarkers(Tail(s))

WellFormed(s) == CountMarkers(s) % 2 = 0

RECURSIVE TokenStarts(_, _)
\* the positions at which the "**" tokens of s start, from position k on
TokenStarts(s, k) ==
    IF k >= Len(s) THEN {}
    ELSE IF s[k] = "*" /\ s[k + 1] = "*" THEN {k} \cup TokenStarts(s, k + 2)
    ELSE TokenStarts(s, k + 1)

\* no part of s between its "**" tokens is empty: s is not empty, neither
\* starts nor ends with a token, and no two tokens are adjacent
MarkersApart(s) ==
    LET ts == TokenStarts(s, 1)
    IN  /\ s # <<>>
        /\ 1 \notin ts
        /\ Len(s) - 1 \notin ts
        /\ \A k \in ts : k + 2 \notin ts

RECURSIVE ConcatSegments(_)
ConcatSegments(segs) ==
    IF segs = <<>> THEN <<>> ELSE Head(segs).text \o ConcatSegments(Tail(segs))

AlternatesFromPlain(segs) ==
    /\ segs # <<>> => ~segs[1].bold
    /\ \A k \in 1..(Len(segs) - 1) : segs[k].bold # segs[k + 1].bold

NoTwoPlainInARow(segs) ==
    \A k \in 1..(Len(segs) - 1) : segs[k].bold \/ segs[k + 1].bold

-----------------------------------------------------------------------------
(* Claims about the parsers (SpecParse).                                    *)

\* C5: for a string with an even number of "**" tokens, the texts of the
\* segments parse_and_format_bullet returns, concatenated in order, are the
\* string with every "**" token removed.
C5_ConcatIsStripped ==
    (ppc = "bullet" /\ WellFormed(text))
        => ConcatSegments(segments) = RemoveMarkers(text)

C5_Witness ==
    /\ ppc = "bullet"
    /\ CountMarkers(text) = 2
    /\ Len(segments) = 2
    /\ Contains(text, <<"*", "*", "*">>)

C7_MalformedKeptWhole ==
    (ppc = "bullet" /\ ~WellFormed(text)) => segments = <<Seg(text, FALSE)>>

C7_Witness ==
    /\ ppc = "bullet"
    /\ CountMarkers(text) = 3
    /\ segments = <<Seg(text, FALSE)>>

\* C8 as claimed: for every string with an even number of "**" tokens,
\* parsing the rendering of its segments returns the same segments.
C8_ReparseAlways ==
    (ppc = "reparsed" /\ WellFormed(text)) => reparsed.segments = segments

\* C8 as amended: the same, for the strings whose segment sequence has no
\* two non-bold segments in a row.
C8_ReparseWhenNoTwoPlain ==
    (ppc = "reparsed" /\ WellFormed(text) /\ NoTwoPlainInARow(segments))
        => reparsed.segments = segments

C8_Witness ==
    /\ ppc = "reparsed"
    /\ CountMarkers(text) = 2
    /\ Len(segments) = 2
    /\ segments[1].bold
    /\ reparsed.text = text

\* the (1-based) position of the first colon of s, 0 when there is none
FirstColon(s) ==
    IF \E k \in 1..Len(s) : s[k] = ":"
    THEN CHOOSE k \in 1..Len(s) : s[k] = ":" /\ \A m \in 1..(k - 1) : s[m] # ":"
    ELSE 0

\* C9: parse_and_format_skill returns what parse_and_format_bullet returns
\* when the string contains "**"; otherwise, when it contains a colon, the
\* text up to and including the first colon, bold, then the rest, not bold;
\* otherwise the string itself, not bold.
C9_SkillLine ==
    ppc = "skill" =>
        segments =
            IF CountMarkers(text) > 0 THEN parse_and_format_bullet(text)
            ELSE IF FirstColon(text) > 0
            THEN <<Seg(SubSeq(text, 1, FirstColon(text)), TRUE),
                   Seg(SubSeq(text, FirstColon(text) + 1, Len(text)), FALSE)>>
            ELSE <<Seg(text, FALSE)>>

C9_Witness ==
    /\ ppc = "skill"
    /\ CountMarkers(text) = 0
    /\ FirstColon(text) = 2
    /\ \E k \in 3..Len(text) : text[k] = ":"
    /\ Len(segments) = 2

-----------------------------------------------------------------------------
(* Claims about one inserter call (SpecInsert).                             *)

\* paragraph k of d holds the heading: its stripped text contains it,
\* letter case aside
HoldsHeading(d, k, title) ==
    Contains(Upper(Strip(ParaText(d[k]))), Upper(title))

\* the (1-based) position of the section heading paragraph of d: the first
\* paragraph that holds the heading; 0 when none does
HeadingPos(d, title) ==
    IF \E k \in 1..Len(d) : HoldsHeading(d, k, title)
    THEN CHOOSE k \in 1..Len(d) :
            /\ HoldsHeading(d, k, title)
            /\ \A m \in 1..(k - 1) : ~HoldsHeading(d, m, title)
    ELSE 0

\* the call has returned True
ReturnedTrue == pc = "return" /\ result = "True"

\* the number of paragraphs the running call has added
Added == Len(doc) - Len(doc0)

\* the texts of the paragraphs that follow the section heading, as many as
\* the call added
BlockTexts ==
    LET h == HeadingPos(doc0, section_title)
    IN  [k \in 1..Added |-> ParaText(doc[h + k])]

\* the text a bullet paragraph is claimed to have: the glyph, a space, and
\* the bullet with its markers removed; with soft set, a bullet with an odd
\* number of markers keeps them
BulletText(bullet, soft) ==
    BulletPrefix \o (IF soft /\ ~WellFormed(bullet) THEN bullet
                     ELSE RemoveMarkers(bullet))

RECURSIVE GroupsRendered(_, _, _, _)
\* texts is, group by group in order, the group's title then one text per
\* bullet in order; between two groups one empty paragraph may stand
GroupsRendered(texts, groups, first, soft) ==
    IF groups = <<>> THEN texts = <<>>
    ELSE LET t == IF ~first /\ texts # <<>> /\ Head(texts) = <<>>
                  THEN Tail(texts) ELSE texts
             g == Head(groups)
             n == Len(g.bullets)
         IN  /\ Len(t) >= n + 1
             /\ t[1] = g.title
             /\ \A j \in 1..n : t[1 + j] = BulletText(g.bullets[j], soft)
             /\ GroupsRendered(SubSeq(t, n + 2, Len(t)), Tail(groups), FALSE, soft)

\* C1 as claimed: after add_content_to_section returns True, the paragraphs
\* right after the section heading are, group by group in the given order,
\* the group's title paragraph followed at once by one paragraph per bullet
\* in the given order, each with the text: glyph, space, the bullet with its
\* bold markers removed.  (The claim is read as silent on the spacer: an
\* empty paragraph between two groups is let through.)
C1_GroupsInOrderStripped ==
    (fn = "content" /\ ReturnedTrue)
        => GroupsRendered(BlockTexts, content, TRUE, FALSE)

\* C1 as amended: the same, except that a bullet with an odd number of "**"
\* tokens keeps its markers in the paragraph text.
C1_GroupsInOrder ==
    (fn = "content" /\ ReturnedTrue)
        => GroupsRendered(BlockTexts, content, TRUE, TRUE)

C1_Witness ==
    /\ fn = "content"
    /\ ReturnedTrue
    /\ Len(content) = 2
    /\ content[1] # content[2]
    /\ Len(content[1].bullets) = 2
    /\ Len(content[2].bullets) = 1
    /\ HeadingPos(doc0, section_title) < Len(doc0)

\* C3: when no paragraph holds the heading, both inserters return False and
\* the document stays as it was: the same paragraphs at the same positions.
C3_MissingHeadingNoChange ==
    (pc # "idle" /\ HeadingPos(doc0, section_title) = 0)
        => /\ doc = doc0
           /\ pc \in {"find", "return"}
           /\ pc = "return" => result = "False"

C3_Witness ==
    /\ pc = "return"
    /\ result = "False"
    /\ HeadingPos(doc0, section_title) = 0
    /\ Len(doc0) >= 2
    /\ content # <<>>

\* C4: a call that found the heading leaves the paragraphs up to and
\* including the heading where they were and puts the paragraphs that
\* followed it, in their order, right after the last paragraph it added;
\* each single insertion leaves the paragraphs below the cursor where they
\* were, puts the new paragraph at the cursor and shifts the others by one.
C4_Frame ==
    LET h == HeadingPos(doc0, section_title)
    IN  /\ (pc \in {"item", "bullet", "skill", "return"} /\ h > 0)
            => /\ SubSeq(doc, 1, h) = SubSeq(doc0, 1, h)
               /\ SubSeq(doc, h + Added + 1, Len(doc)) = SubSeq(doc0, h + 1, Len(doc0))
               /\ \A k \in (h + 1)..(h + Added) : doc[k].id > Len(doc0)
        /\ step0.taken
            => /\ Len(doc) = Len(step0.doc) + 1
               /\ \A k \in 1..step0.idx : doc[k] = step0.doc[k]
               /\ doc[step0.idx + 1].id = Len(doc)
               /\ \A k \in (step0.idx + 1)..Len(step0.doc) : doc[k + 1] = step0.doc[k]

C4_Witness ==
    /\ ReturnedTrue
    /\ HeadingPos(doc0, section_title) = Len(doc0)
    /\ Len(doc0) >= 2
    /\ Added >= 3

C4_WitnessMiddle ==
    /\ ReturnedTrue
    /\ fn = "skills"
    /\ HeadingPos(doc0, section_title) \in 2..(Len(doc0) - 1)
    /\ Added = 2

\* the paragraphs that follow the section heading, as many as the call added
BlockParas ==
    LET h == HeadingPos(doc0, section_title)
    IN  [k \in 1..Added |-> doc[h + k]]

\* an empty paragraph with the spacer's space_after
IsSpacer(p) == p.runs = <<>> /\ p.space_after = "Pt(0.5)"

RECURSIVE TotalBullets(_)
TotalBullets(groups) ==
    IF groups = <<>> THEN 0
    ELSE Len(Head(groups).bullets) + TotalBullets(Tail(groups))

RECURSIVE SpacedGroups(_, _)
\* paras is, group by group, a title paragraph and one paragraph per bullet,
\* none of them a spacer, then one spacer exactly when the group is not at
\* the last position of the list
SpacedGroups(paras, groups) ==
    IF groups = <<>> THEN paras = <<>>
    ELSE LET n == Len(Head(groups).bullets)
             last == Len(groups) = 1
             need == n + 1 + (IF last THEN 0 ELSE 1)
         IN  /\ Len(paras) >= need
             /\ \A k \in 1..(n + 1) : ~IsSpacer(paras[k])
             /\ ~last => IsSpacer(paras[n + 2])
             /\ SpacedGroups(SubSeq(paras, need + 1, Len(paras)), Tail(groups))

\* C11: after add_content_to_section returns True on a non-empty list of
\* groups, exactly one empty spacer paragraph stands right after the bullets
\* of each group that is not at the last position, none after the group at
\* the last position, also when a group before the last equals the last one;
\* the call has added (groups) + (bullets) + (groups - 1) paragraphs.
C11_SpacerAfterEachNonLast ==
    (fn = "content" /\ ReturnedTrue /\ content # <<>>)
        => /\ SpacedGroups(BlockParas, content)
           /\ Added = Len(content) + TotalBullets(content) + (Len(content) - 1)

-----------------------------------------------------------------------------
(* Claims about the build (SpecBuild).                                      *)

\* the position in d of the paragraph with this identity
PosOfId(d, id) == CHOOSE k \in 1..Len(d) : d[k].id = id

SectionTitles == {EXPERIENCE, PROJECTS, TECHNICAL_SKILLS}

\* C2: on a template that holds each of the three headings, at the end of
\* the build the paragraphs each successful inserter call added stand, in
\* order, right after that section's own heading paragraph of the template,
\* whatever the payload.
C2_EachSectionUnderOwnHeading ==
    (stage = "done" /\ \A t \in SectionTitles : HeadingPos(template, t) > 0)
        => \A c \in 1..Len(calls) :
              calls[c].result = "True" =>
                 LET h == PosOfId(doc, HeadingPos(template, calls[c].title))
                     first == Len(calls[c].before)
                     n == Len(calls[c].after) - first
                 IN  \A k \in 1..n :
                        /\ h + k <= Len(doc)
                        /\ doc[h + k].id = first + k

\* the response is a payload of the experience/projects/skills schema
SchemaPayload(v) ==
    /\ v.keys \subseteq {"experience", "projects", "skills"}
    /\ \A k \in 1..Len(v.experience) : v.experience[k].mapping
    /\ \A k \in 1..Len(v.projects) : v.projects[k].mapping

\* the enhancement call failed or its response is malformed
EnhancementFailed ==
    \/ response.kind \in {"api_error", "not_json"}
    \/ response.kind = "json" /\ ~SchemaPayload(response.value)

\* the inserter calls of a build that reads the payload p
CallsFor(p) ==
    <<[title |-> EXPERIENCE, content |-> p.experience],
      [title |-> PROJECTS, content |-> p.projects],
      [title |-> TECHNICAL_SKILLS, content |-> p.skills]>>

\* C10: in a build with a job description, whenever the enhancement call
\* fails or its response is malformed, the build ends having inserted the
\* sections of the original payload.
C10_FailedEnhancementKeepsOriginal ==
    (stage \in {"done", "crashed"} /\ job_description # <<>> /\ EnhancementFailed)
        => /\ stage = "done"
           /\ [c \in 1..Len(calls) |->
                 [title |-> calls[c].title, content |-> calls[c].content]]
              = CallsFor(software_dev_resume)

=============================================================================
